---- MODULE Spec2Model ----
(***************************************************************************)
(* Model of windows-features (src/src/main.rs): the catalog index          *)
(* (build_feature_mappings), the import parser (parse_import_line,         *)
(* parse_namespace_and_item), the by-name fallback (attempt_fix_import)    *)
(* and the aggregation loop (get_required_features).                       *)
(*                                                                         *)
(* A Rust String is a sequence of one-character strings, so that split,    *)
(* trim, starts_with, the byte order of BTreeMap keys and ASCII case       *)
(* folding are computed as the standard library computes them.             *)
(* Option<T> is a sequence of length 0 (None) or 1 (Some).                 *)
(***************************************************************************)
EXTENDS Integers, Sequences, FiniteSets, TLC

VARIABLES
    pc,                 \* position of the running function
    import_line,        \* argument of parse_namespace_and_item (SpecParse)
    parsed,             \* its return value (SpecParse)
    features,           \* the FeaturesFile handed to build_feature_mappings
    item_to_features,   \* BTreeMap<String, BTreeSet<String>>, the index
    full_name,          \* argument of attempt_fix_import (SpecBuild)
    fixed,              \* its return value (SpecBuild)
    imports,            \* Vec<String> handed to get_required_features
    i,                  \* index of the next element of imports
    required_features,  \* the accumulator of get_required_features
    diag,               \* the last tracing event emitted by the loop body
    prev,               \* outcome of the previous run of the program
    run                 \* number of the current run (1 or 2)

vars == <<pc, import_line, parsed, features, item_to_features, full_name,
          fixed, imports, i, required_features, diag, prev, run>>

(***************************************************************************)
(* Bounds of the model.                                                    *)
(***************************************************************************)
MaxLen == 6
MaxRows == 2
MaxImports == 2

(***************************************************************************)
(* Characters and strings.                                                 *)
(***************************************************************************)
\* The byte value of each character the model uses (ASCII).
Code ==
    (" " :> 32) @@ ("*" :> 42) @@ ("+" :> 43) @@ ("." :> 46) @@ ("0" :> 48) @@
    ("1" :> 49) @@ ("2" :> 50) @@ ("3" :> 51) @@ ("7" :> 55) @@ (":" :> 58) @@ (";" :> 59) @@ ("A" :> 65) @@
    ("B" :> 66) @@ ("F" :> 70) @@ ("G" :> 71) @@ ("W" :> 87) @@ ("Z" :> 90) @@
    ("b" :> 98) @@ ("d" :> 100) @@ ("f" :> 102) @@ ("g" :> 103) @@
    ("h" :> 104) @@ ("i" :> 105) @@ ("n" :> 110) @@ ("o" :> 111) @@
    ("q" :> 113) @@ ("r" :> 114) @@ ("s" :> 115) @@ ("w" :> 119) @@
    ("x" :> 120)

None == <<>>
Some(x) == <<x>>

\* u8::to_ascii_lowercase on the byte value.
to_ascii_lowercase(c) == IF Code[c] \in 65..90 THEN Code[c] + 32 ELSE Code[c]

\* str::eq_ignore_ascii_case
eq_ignore_ascii_case(a, b) ==
    /\ Len(a) = Len(b)
    /\ \A k \in 1..Len(a) : to_ascii_lowercase(a[k]) = to_ascii_lowercase(b[k])

\* char::is_whitespace, on the characters of the model.
is_whitespace(c) == c = " "

\* str::starts_with
starts_with(s, p) == Len(p) <= Len(s) /\ SubSeq(s, 1, Len(p)) = p

\* Ord for String: the lexicographic order of the bytes.
StrLess(a, b) ==
    \E k \in 1..(Len(a) + 1) :
        /\ k <= Len(b)
        /\ \A j \in 1..(k - 1) : a[j] = b[j]
        /\ (k = Len(a) + 1 \/ Code[a[k]] < Code[b[k]])

RECURSIVE trim_end_matches(_, _)
trim_end_matches(s, c) ==
    IF Len(s) > 0 /\ s[Len(s)] = c
    THEN trim_end_matches(SubSeq(s, 1, Len(s) - 1), c)
    ELSE s

RECURSIVE trim_end(_)
trim_end(s) ==
    IF Len(s) > 0 /\ is_whitespace(s[Len(s)])
    THEN trim_end(SubSeq(s, 1, Len(s) - 1))
    ELSE s

RECURSIVE trim_start(_)
trim_start(s) ==
    IF Len(s) > 0 /\ is_whitespace(s[1]) THEN trim_start(Tail(s)) ELSE s

\* str::trim
trim(s) == trim_start(trim_end(s))

\* The positions at which pat occurs in s.
Matches(s, pat) ==
    {k \in 1..(Len(s) - Len(pat) + 1) : SubSeq(s, k, k + Len(pat) - 1) = pat}

\* str::split: the leftmost non-overlapping occurrences of pat separate the
\* tokens; a string without pat is a single token.
RECURSIVE split(_, _)
split(s, pat) ==
    IF Matches(s, pat) = {}
    THEN <<s>>
    ELSE LET k == CHOOSE m \in Matches(s, pat) : \A n \in Matches(s, pat) : m <= n
         IN  <<SubSeq(s, 1, k - 1)>> \o split(SubSeq(s, k + Len(pat), Len(s)), pat)

\* str::splitn(2, pat): at most two parts, cut at the first occurrence.
splitn2(s, pat) ==
    IF Matches(s, pat) = {}
    THEN <<s>>
    ELSE LET k == CHOOSE m \in Matches(s, pat) : \A n \in Matches(s, pat) : m <= n
         IN  <<SubSeq(s, 1, k - 1), SubSeq(s, k + Len(pat), Len(s))>>

\* [&str]::join
RECURSIVE join(_, _)
join(parts, sep) ==
    IF Len(parts) = 0 THEN <<>>
    ELSE IF Len(parts) = 1 THEN parts[1]
    ELSE parts[1] \o sep \o join(Tail(parts), sep)

\* Iterator::last of a split.
last(parts) == parts[Len(parts)]

Windows == <<"W", "i", "n", "d", "o", "w", "s">>
Dot == <<".">>
ColonColon == <<":", ":">>

(***************************************************************************)
(* parse_import_line and parse_namespace_and_item.                         *)
(***************************************************************************)
\* Result<(String, String)>: None models Err.
parse_import_line(line) ==
    LET parts == splitn2(line, <<":">>)
    IN  IF Len(parts) # 2 THEN None ELSE Some(<<parts[1], parts[2]>>)

\* The tokens parse_namespace_and_item works on.
LineParts(text) == split(trim(trim_end_matches(text, ";")), ColonColon)

\* The least number of tokens of a reference (parts.len() < 3 is rejected).
MinParts == 3

\* A faulty variant of parse_namespace_and_item: the slice is taken from the
\* first token on (&parts[0..parts.len() - 1]).
parse_keeping_root(text) ==
    LET parts == LineParts(text)
        namespace_parts == SubSeq(parts, 1, Len(parts) - 1)
        namespace == Windows \o Dot \o join(namespace_parts, Dot)
    IN  IF Len(parts) < MinParts THEN None
        ELSE IF last(parts) = <<"*">> THEN Some(<<namespace, None>>)
        ELSE Some(<<namespace, Some(last(parts))>>)

\* Option<(String, Option<String>)>
parse_namespace_and_item(text) ==
    LET parts == LineParts(text)
        namespace_parts == SubSeq(parts, 2, Len(parts) - 1)
        namespace == Windows \o Dot \o join(namespace_parts, Dot)
    IN  IF Len(parts) < MinParts THEN None
        ELSE IF last(parts) = <<"*">> THEN Some(<<namespace, None>>)
        ELSE Some(<<namespace, Some(last(parts))>>)

(***************************************************************************)
(* The catalog (FeaturesFile) and build_feature_mappings.                  *)
(*                                                                         *)
(* features.namespace_map and features.feature_map are sequences addressed *)
(* from 0; features.namespaces is a BTreeMap from key strings to the Vec   *)
(* of entries [name, features], features an Option<Vec<usize>>.            *)
(***************************************************************************)
EmptyMap == [k \in {} |-> {}]

\* Iteration order of a BTreeMap<String, _>: its keys in ascending order.
RECURSIVE SortStrings(_)
SortStrings(S) ==
    IF S = {} THEN <<>>
    ELSE LET m == CHOOSE x \in S : \A y \in S \ {x} : StrLess(x, y)
         IN  <<m>> \o SortStrings(S \ {m})

RECURSIVE Reverse(_)
Reverse(s) == IF s = <<>> THEN <<>> ELSE Reverse(Tail(s)) \o <<Head(s)>>

BTreeKeys(m) == SortStrings(DOMAIN m)

Digits == {"0", "1", "2", "3", "7"}

RECURSIVE DecimalValue(_)
DecimalValue(d) ==
    IF d = <<>> THEN 0
    ELSE 10 * DecimalValue(SubSeq(d, 1, Len(d) - 1)) + (Code[d[Len(d)]] - 48)

\* str::parse::<usize>: an optional '+', then one or more decimal digits.
parse_usize(s) ==
    LET d == IF Len(s) > 0 /\ s[1] = "+" THEN Tail(s) ELSE s
    IN  IF d = <<>> \/ \E k \in 1..Len(d) : d[k] \notin Digits
        THEN None
        ELSE Some(DecimalValue(d))

\* item_to_features.entry(k).or_insert_with(BTreeSet::new).insert(v)
MapInsert(m, k, v) ==
    [x \in DOMAIN m \cup {k} |->
        IF x = k THEN (IF k \in DOMAIN m THEN m[k] ELSE {}) \cup {v} ELSE m[x]]

\* for &fi in feature_indexes { ... }
RECURSIVE InsertFeatures(_, _, _, _)
InsertFeatures(m, fname, idxs, feature_map) ==
    IF idxs = <<>> THEN m
    ELSE LET fi == Head(idxs)
             m2 == IF fi < Len(feature_map)
                   THEN MapInsert(m, fname, feature_map[fi + 1])
                   ELSE m
         IN  InsertFeatures(m2, fname, Tail(idxs), feature_map)

\* for entry in entries { ... }
RECURSIVE InsertEntries(_, _, _, _)
InsertEntries(m, namespace, entries, feature_map) ==
    IF entries = <<>> THEN m
    ELSE LET entry == Head(entries)
             fname == namespace \o Dot \o entry.name
             m2 == IF entry.features # None
                   THEN InsertFeatures(m, fname, entry.features[1], feature_map)
                   ELSE m
         IN  InsertEntries(m2, namespace, Tail(entries), feature_map)

\* for (idx_str, entries) in &features.namespaces { ... }: None models the
\* Err that the ? on idx_str.parse() returns.
RECURSIVE BuildLoop(_, _, _)
BuildLoop(m, keys, f) ==
    IF keys = <<>> THEN Some(m)
    ELSE LET idx == parse_usize(Head(keys))
         IN  IF idx = None THEN None
             ELSE IF idx[1] >= Len(f.namespace_map)
             THEN BuildLoop(m, Tail(keys), f)
             ELSE BuildLoop(InsertEntries(m, f.namespace_map[idx[1] + 1],
                                          f.namespaces[Head(keys)], f.feature_map),
                            Tail(keys), f)

\* Result<BTreeMap<String, BTreeSet<String>>>
build_feature_mappings(f) == BuildLoop(EmptyMap, BTreeKeys(f.namespaces), f)

(***************************************************************************)
(* attempt_fix_import.                                                     *)
(***************************************************************************)
\* A faulty variant of the comparison: case-sensitive (==).
SegmentEq(existing_segment, item_segment) == existing_segment = item_segment

\* existing_segment.eq_ignore_ascii_case(item_segment)
SegmentMatches(existing_segment, item_segment) ==
    eq_ignore_ascii_case(existing_segment, item_segment)

\* A faulty variant of the iteration: from the greatest key down
\* (.iter().rev()).
FixOrderDescending(m) == Reverse(BTreeKeys(m))

\* for (existing_item, feats) in item_to_features: ascending key order.
FixOrder(m) == BTreeKeys(m)

\* The first key, in iteration order, whose last segment matches.
RECURSIVE FirstMatch(_, _)
FirstMatch(keys, item_segment) ==
    IF keys = <<>> THEN None
    ELSE IF SegmentMatches(last(split(Head(keys), Dot)), item_segment)
    THEN Some(Head(keys))
    ELSE FirstMatch(Tail(keys), item_segment)

\* The key the warn! of attempt_fix_import names, if any.
FixedKey(m, fname) == FirstMatch(FixOrder(m), last(split(fname, Dot)))

\* Option<BTreeSet<String>>
attempt_fix_import(m, fname) ==
    IF FixedKey(m, fname) = None THEN None ELSE Some(m[FixedKey(m, fname)[1]])

(***************************************************************************)
(* SpecParse: parse_namespace_and_item applied to every text of at most    *)
(* MaxLen characters.                                                      *)
(***************************************************************************)
ParseAlphabet == {"w", ":", "*", ";", " "}
Texts == UNION {[1..n -> ParseAlphabet] : n \in 0..MaxLen}

NoCatalog == [namespace_map |-> <<>>, feature_map |-> <<>>, namespaces |-> EmptyMap]
NoDiag == [kind |-> "none"]
NoPrev == [pc |-> "none"]

InitParse ==
    /\ pc = "parse"
    /\ import_line \in Texts
    /\ parsed = None
    /\ features = NoCatalog
    /\ item_to_features = EmptyMap
    /\ full_name = <<>>
    /\ fixed = None
    /\ imports = <<>>
    /\ i = 1
    /\ required_features = {}
    /\ diag = NoDiag
    /\ prev = NoPrev
    /\ run = 1

ParseNamespaceAndItem ==
    /\ pc = "parse"
    /\ parsed' = parse_namespace_and_item(import_line)
    /\ pc' = "parsed"
    /\ UNCHANGED <<import_line, features, item_to_features, full_name, fixed,
                   imports, i, required_features, diag, prev, run>>

NextParse == ParseNamespaceAndItem

SpecParse == InitParse /\ [][NextParse]_vars

\* The tokens of the text as given, before any stripping.
RawParts == split(import_line, ColonColon)

\* The tokens of the text once the terminator has been stripped.
StrippedParts == LineParts(import_line)

\* C8: parse_namespace_and_item returns nothing exactly when the import text
\* has fewer than 3 tokens between "::"; otherwise the namespace is "Windows"
\* followed by the tokens between the first and the last joined with ".",
\* and the reference is a wildcard when the last token is "*" and carries
\* the last token as its item name otherwise.
C8_ParseShape ==
    pc = "parsed" =>
        /\ (parsed = None) <=> (Len(RawParts) < 3)
        /\ parsed # None =>
            /\ parsed[1][1] =
                   Windows \o Dot
                   \o join(SubSeq(StrippedParts, 2, Len(StrippedParts) - 1), Dot)
            /\ (parsed[1][2] = None) <=> (last(StrippedParts) = <<"*">>)
            /\ parsed[1][2] # None => parsed[1][2][1] = last(StrippedParts)

\* C8 witness: a specific-item reference with a namespace segment was parsed.
C8_Witness ==
    /\ pc = "parsed"
    /\ parsed # None
    /\ parsed[1][2] = Some(<<"w">>)
    /\ parsed[1][1] = Windows \o Dot \o <<"w">>

\* The text without the whitespace around its final terminator: for a text
\* core ws ";" ws it is core ";", for any other text the text itself.
WithoutTerminatorSpace(text) ==
    LET t == trim_end(text)
    IN  IF Len(t) > 0 /\ t[Len(t)] = ";"
        THEN trim_end(SubSeq(t, 1, Len(t) - 1)) \o <<";">>
        ELSE text

HasTerminatorOrSpace(s) == \E k \in 1..Len(s) : s[k] = ";" \/ s[k] = " "

\* C9: a text that differs from a parseable one only by whitespace before
\* or after the terminator parses to the same namespace and item, and these
\* hold neither ";" nor whitespace (when the text has none elsewhere).
C9_TerminatorWhitespace ==
    pc = "parsed" =>
        LET base == WithoutTerminatorSpace(import_line)
            core == SubSeq(base, 1, Len(base) - 1)
        IN  (base # import_line /\ parse_namespace_and_item(base) # None) =>
                /\ parsed = parse_namespace_and_item(base)
                /\ ~HasTerminatorOrSpace(core) =>
                       /\ parsed # None
                       /\ ~HasTerminatorOrSpace(parsed[1][1])
                       /\ parsed[1][2] # None =>
                              ~HasTerminatorOrSpace(parsed[1][2][1])

(***************************************************************************)
(* SpecBuild: build_feature_mappings and attempt_fix_import over a space   *)
(* of small catalogs, then once more over the same catalog in another      *)
(* order.                                                                  *)
(***************************************************************************)
NsA == Windows \o Dot \o <<"A">>
NsB == Windows \o Dot \o <<"B">>
NsZ == Windows \o Dot \o <<"Z">>

Range(s) == {s[k] : k \in 1..Len(s)}

\* One entry of the catalog under one namespace key.
BuildKeys == {<<"0">>, <<"1">>, <<"7">>, <<"x">>}
BuildNames == {<<"f">>, <<"F">>}
BuildFeatureLists == {None, Some(<<0>>), Some(<<1, 0>>), Some(<<7, 1>>)}
Rows == [key : BuildKeys, name : BuildNames, features : BuildFeatureLists]
RowSeqs == UNION {[1..n -> Rows] : n \in 0..MaxRows}

RECURSIVE EntriesOf(_, _)
EntriesOf(rows, key) ==
    IF rows = <<>> THEN <<>>
    ELSE (IF Head(rows).key = key
          THEN <<[name |-> Head(rows).name, features |-> Head(rows).features]>>
          ELSE <<>>) \o EntriesOf(Tail(rows), key)

\* The FeaturesFile whose namespaces hold the rows, in their order.
MkCatalog(namespace_map, feature_map, rows) ==
    [namespace_map |-> namespace_map,
     feature_map |-> feature_map,
     namespaces |-> [k \in {r.key : r \in Range(rows)} |-> EntriesOf(rows, k)]]

\* The names attempt_fix_import is asked about.
FixNames == {NsZ \o Dot \o <<"f">>, NsZ \o Dot \o <<"q">>}

\* The same content in another order: the entries of each namespace
\* permuted, the feature lists reversed, and the namespaces renumbered.
Perms(s) ==
    {[k \in 1..Len(s) |-> s[q[k]]] :
        q \in {p \in [1..Len(s) -> 1..Len(s)] :
                  \A a, b \in 1..Len(s) : a # b => p[a] # p[b]}}

NamespacesOrders(ns) ==
    {g \in [DOMAIN ns -> UNION {Perms(ns[k]) : k \in DOMAIN ns}] :
        \A k \in DOMAIN ns : g[k] \in Perms(ns[k])}

\* Every feature list of the catalog written backwards.
FeatureListsReversed(f) ==
    [f EXCEPT !.namespaces =
        [k \in DOMAIN @ |->
            [n \in 1..Len(@[k]) |->
                [@[k][n] EXCEPT !.features =
                    IF @ = None THEN None ELSE Some(Reverse(@[1]))]]]]

\* The key of a namespace once namespace_map is reversed.
RenumberKey(k, n) ==
    LET idx == parse_usize(k)
    IN  IF idx # None /\ idx[1] < n
        THEN <<CHOOSE c \in Digits : Code[c] - 48 = n - 1 - idx[1]>>
        ELSE k

Renumbered(f) ==
    LET n == Len(f.namespace_map)
        newkeys == {RenumberKey(k, n) : k \in DOMAIN f.namespaces}
    IN  [f EXCEPT !.namespace_map = Reverse(@),
                  !.namespaces =
                      [k2 \in newkeys |->
                          f.namespaces[CHOOSE k \in DOMAIN f.namespaces :
                                           RenumberKey(k, n) = k2]]]

Reorderings(f) ==
    LET entryOrders == {[f EXCEPT !.namespaces = g] : g \in NamespacesOrders(f.namespaces)}
        listOrders == entryOrders \cup {FeatureListsReversed(c) : c \in entryOrders}
    IN  listOrders \cup {Renumbered(c) : c \in listOrders}

InitBuild ==
    /\ pc = "build"
    /\ \E rows \in RowSeqs : features = MkCatalog(<<NsA, NsB>>, <<"X", "Y">>, rows)
    /\ full_name \in FixNames
    /\ item_to_features = EmptyMap
    /\ fixed = None
    /\ import_line = <<>>
    /\ parsed = None
    /\ imports = <<>>
    /\ i = 1
    /\ required_features = {}
    /\ diag = NoDiag
    /\ prev = NoPrev
    /\ run = 1

\* build_feature_mappings(&features)
BuildFeatureMappings ==
    /\ pc = "build"
    /\ LET r == build_feature_mappings(features)
       IN  IF r = None
           THEN pc' = "build_err" /\ UNCHANGED item_to_features
           ELSE pc' = "built" /\ item_to_features' = r[1]
    /\ UNCHANGED <<import_line, parsed, features, full_name, fixed, imports, i,
                   required_features, diag, prev, run>>

\* attempt_fix_import(&item_to_features, &full_name)
AttemptFixImport ==
    /\ pc = "built"
    /\ fixed' = attempt_fix_import(item_to_features, full_name)
    /\ pc' = "fixed"
    /\ UNCHANGED <<import_line, parsed, features, item_to_features, full_name,
                   imports, i, required_features, diag, prev, run>>

\* The program is run again on the same catalog written in another order.
ReorderCatalog ==
    /\ pc \in {"fixed", "build_err"}
    /\ run = 1
    /\ prev' = [pc |-> pc, fixed |-> fixed, features |-> features]
    /\ features' \in Reorderings(features)
    /\ item_to_features' = EmptyMap
    /\ fixed' = None
    /\ pc' = "build"
    /\ run' = 2
    /\ UNCHANGED <<import_line, parsed, full_name, imports, i,
                   required_features, diag>>

NextBuild == BuildFeatureMappings \/ AttemptFixImport \/ ReorderCatalog

SpecBuild == InitBuild /\ [][NextBuild]_vars

\* The index the catalog describes: every qualified key of a namespace whose
\* key names a namespace of namespace_map, with the features of feature_map
\* its entries list.
ValidKeys(f) ==
    {k \in DOMAIN f.namespaces :
        /\ parse_usize(k) # None
        /\ parse_usize(k)[1] < Len(f.namespace_map)}

IndexPairs(f) ==
    UNION {UNION {IF e.features = None THEN {}
                  ELSE {<<f.namespace_map[parse_usize(k)[1] + 1] \o Dot \o e.name,
                          f.feature_map[fi + 1]>> :
                            fi \in {x \in Range(e.features[1]) : x < Len(f.feature_map)}} :
                  e \in Range(f.namespaces[k])} : k \in ValidKeys(f)}

ExpectedIndex(f) ==
    [key \in {p[1] : p \in IndexPairs(f)} |->
        {p[2] : p \in {q \in IndexPairs(f) : q[1] = key}}]

\* C2: building the index never fails: keys that are no unsigned integer or
\* name no namespace, and feature indexes out of range, are skipped and all
\* the rest is inserted.
C2_BuildNeverFails ==
    /\ pc # "build_err"
    /\ pc \in {"built", "fixed"} => item_to_features = ExpectedIndex(features)

\* The part of the name after its last ".".
ItemSuffix(name) ==
    LET dots == {k \in 1..Len(name) : name[k] = "."}
        from == IF dots = {} THEN 1
                ELSE 1 + CHOOSE k \in dots : \A j \in dots : j <= k
    IN  SubSeq(name, from, Len(name))

MatchingKeys(m, fname) ==
    {k \in DOMAIN m : eq_ignore_ascii_case(ItemSuffix(k), ItemSuffix(fname))}

SmallestKey(S) == CHOOSE k \in S : \A j \in S \ {k} : StrLess(k, j)

\* C10: the by-name fallback returns the feature set of the smallest matching
\* qualified key in byte order, and the same catalog written in another
\* order gives the same result.
C10_DeterministicFallback ==
    /\ pc = "fixed" =>
        IF MatchingKeys(item_to_features, full_name) = {}
        THEN fixed = None
        ELSE fixed = Some(item_to_features[
                              SmallestKey(MatchingKeys(item_to_features, full_name))])
    /\ (run = 2 /\ pc \in {"fixed", "build_err"}) => pc = prev.pc
    /\ (run = 2 /\ pc = "fixed") => fixed = prev.fixed

\* C10 witness: two keys with different features match, and the second run
\* read the catalog in another order.
C10_Witness ==
    /\ run = 2
    /\ pc = "fixed"
    /\ features # prev.features
    /\ \E k1, k2 \in MatchingKeys(item_to_features, full_name) :
           item_to_features[k1] # item_to_features[k2]

(***************************************************************************)
(* get_required_features.                                                  *)
(***************************************************************************)
\* A faulty variant of the lookup: it never finds the key.
MapGetNothing(m, k) == None

\* item_to_features.get(&full_name)
MapGet(m, k) == IF k \in DOMAIN m THEN Some(m[k]) ELSE None

\* A faulty variant of the merge: required_features = features.
ExtendReplacing(acc, feats) == feats

\* required_features.extend(features)
Extend(acc, feats) == acc \cup feats

\* A faulty variant of the prefix: without its closing ".".
NamespacePrefixOpen(namespace) == namespace

\* format!("{}.", namespace)
NamespacePrefix(namespace) == namespace \o Dot

\* The filter_map / flatten / collect of the wildcard branch.
WildcardFeatures(m, namespace) ==
    UNION {m[k] : k \in {x \in DOMAIN m : starts_with(x, NamespacePrefix(namespace))}}

\* The body of `for import in imports`: err is the Err the ? returns, acc the
\* accumulator after the body, diag the branch taken and what it logged.
LoopBody(m, acc, import) ==
    LET r == parse_import_line(import)
    IN  IF r = None
        THEN [err |-> TRUE, acc |-> acc,
              diag |-> [kind |-> "invalid_format", import |-> import]]
        ELSE
        LET p == parse_namespace_and_item(r[1][2])
        IN  IF p = None
            THEN [err |-> FALSE, acc |-> acc,
                  diag |-> [kind |-> "could_not_determine", import |-> import]]
            ELSE IF p[1][2] # None
            THEN LET fname == p[1][1] \o Dot \o p[1][2][1]
                     got == MapGet(m, fname)
                     fix == attempt_fix_import(m, fname)
                 IN  IF got # None
                     THEN [err |-> FALSE, acc |-> Extend(acc, got[1]),
                           diag |-> [kind |-> "exact", import |-> import,
                                     key |-> fname]]
                     ELSE IF fix # None
                     THEN [err |-> FALSE, acc |-> Extend(acc, fix[1]),
                           diag |-> [kind |-> "corrected", import |-> import,
                                     key |-> FixedKey(m, fname)[1]]]
                     ELSE [err |-> FALSE, acc |-> acc,
                           diag |-> [kind |-> "no_features_item", import |-> import]]
            ELSE LET matching_features == WildcardFeatures(m, p[1][1])
                 IN  IF matching_features = {}
                     THEN [err |-> FALSE, acc |-> acc,
                           diag |-> [kind |-> "no_features_namespace",
                                     import |-> import]]
                     ELSE [err |-> FALSE, acc |-> Extend(acc, matching_features),
                           diag |-> [kind |-> "wildcard", import |-> import]]

(***************************************************************************)
(* Spec: get_required_features over a few catalogs and every sequence of   *)
(* at most MaxImports raw lines, then once more over the same lines in     *)
(* another order or number.                                                *)
(***************************************************************************)
NsAB == Windows \o Dot \o <<"A", "B">>
NsAsubB == Windows \o Dot \o <<"A", ".", "B">>

Entry(name, fs) == [name |-> name, features |-> fs]

\* Windows.A.f -> X, Windows.AB.h -> V, Windows.B.f -> Y, Windows.B.G -> U,
\* Windows.A.B.q -> Y; the key "7" names no namespace.
CatalogFull ==
    [namespace_map |-> <<NsA, NsAB, NsB, NsAsubB>>,
     feature_map |-> <<"X", "Y", "V", "U">>,
     namespaces |->
         (<<"0">> :> <<Entry(<<"f">>, Some(<<0>>))>>) @@
         (<<"1">> :> <<Entry(<<"h">>, Some(<<2>>))>>) @@
         (<<"2">> :> <<Entry(<<"f">>, Some(<<1>>))>>) @@
         (<<"+", "2">> :> <<Entry(<<"G">>, Some(<<3, 7>>))>>) @@
         (<<"3">> :> <<Entry(<<"q">>, Some(<<1>>))>>) @@
         (<<"7">> :> <<Entry(<<"x">>, Some(<<2>>))>>)]

\* Only Windows.A.F -> X is indexed: f has no feature list, G none in range.
CatalogSparse ==
    [namespace_map |-> <<NsA>>,
     feature_map |-> <<"X">>,
     namespaces |->
         (<<"0">> :> <<Entry(<<"f">>, None), Entry(<<"F">>, Some(<<0>>)),
                       Entry(<<"G">>, Some(<<7>>))>>) @@
         (<<"7">> :> <<Entry(<<"q">>, Some(<<0>>))>>)]

\* A namespace key that is no number.
CatalogBadKey ==
    [namespace_map |-> <<NsA>>,
     feature_map |-> <<"X">>,
     namespaces |->
         (<<"0">> :> <<Entry(<<"f">>, Some(<<0>>))>>) @@
         (<<"x">> :> <<Entry(<<"q">>, Some(<<0>>))>>)]

Catalogs == {CatalogFull, CatalogSparse, CatalogBadKey}

File == <<"r", ":">>
Root == <<"w">>
Import(segments) == File \o Root \o ColonColon \o join(segments, ColonColon)

LineExactA == Import(<<<<"A">>, <<"f", ";">>>>)
LineExactB == Import(<<<<"B">>, <<"f">>>>)
LineWrongNs == Import(<<<<"Z">>, <<"g">>>>)
LineAbsent == Import(<<<<"Z">>, <<"x">>>>)
LineWildA == Import(<<<<"A">>, <<"*">>>>)
LineWildZ == Import(<<<<"Z">>, <<"*", ";">>>>)
LineShort == Import(<<<<"f", ";">>>>)
LineNoColon == <<"w">>
LineDotted == Import(<<<<"Z">>, <<"x", ".", "h">>>>)

RawLines == {LineExactA, LineExactB, LineWrongNs, LineAbsent, LineWildA,
             LineWildZ, LineShort, LineNoColon, LineDotted}

ImportSeqs == UNION {[1..n -> RawLines] : n \in 0..MaxImports}

Init ==
    /\ pc = "load"
    /\ features \in Catalogs
    /\ imports \in ImportSeqs
    /\ item_to_features = EmptyMap
    /\ i = 1
    /\ required_features = {}
    /\ diag = NoDiag
    /\ prev = NoPrev
    /\ run = 1
    /\ import_line = <<>>
    /\ parsed = None
    /\ full_name = <<>>
    /\ fixed = None

\* let item_to_features = load_feature_mapping().await?;
LoadFeatureMapping ==
    /\ pc = "load"
    /\ LET r == build_feature_mappings(features)
       IN  IF r = None
           THEN pc' = "err" /\ UNCHANGED item_to_features
           ELSE pc' = "loop" /\ item_to_features' = r[1]
    /\ UNCHANGED <<import_line, parsed, features, full_name, fixed, imports, i,
                   required_features, diag, prev, run>>

\* One iteration of `for import in imports`.
ProcessImport ==
    /\ pc = "loop"
    /\ i <= Len(imports)
    /\ LET b == LoopBody(item_to_features, required_features, imports[i])
       IN  /\ required_features' = b.acc
           /\ diag' = b.diag
           /\ IF b.err
              THEN pc' = "err" /\ UNCHANGED i
              ELSE pc' = "loop" /\ i' = i + 1
    /\ UNCHANGED <<import_line, parsed, features, item_to_features, full_name,
                   fixed, imports, prev, run>>

\* Ok(required_features)
ReturnFeatures ==
    /\ pc = "loop"
    /\ i > Len(imports)
    /\ pc' = "done"
    /\ UNCHANGED <<import_line, parsed, features, item_to_features, full_name,
                   fixed, imports, i, required_features, diag, prev, run>>

\* The program is run again on the same catalog and the same set of raw
\* lines, in any order and with any repetition.
RunAgain ==
    /\ pc \in {"done", "err"}
    /\ run = 1
    /\ prev' = [pc |-> pc, required_features |-> required_features,
                imports |-> imports]
    /\ imports' \in {s \in ImportSeqs : Range(s) = Range(imports)}
    /\ item_to_features' = EmptyMap
    /\ i' = 1
    /\ required_features' = {}
    /\ diag' = NoDiag
    /\ pc' = "load"
    /\ run' = 2
    /\ UNCHANGED <<import_line, parsed, features, full_name, fixed>>

Next == LoadFeatureMapping \/ ProcessImport \/ ReturnFeatures \/ RunAgain

Spec == Init /\ [][Next]_vars

(***************************************************************************)
(* The claims about get_required_features.                                 *)
(***************************************************************************)
AtImport == pc = "loop" /\ i <= Len(imports)

\* The import the loop is about to process, as the two parsers read it.
CurSplit == parse_import_line(imports[i])
CurRef == parse_namespace_and_item(CurSplit[1][2])

CannotParse == CurSplit = None \/ CurRef = None
IsSpecific == CurSplit # None /\ CurRef # None /\ CurRef[1][2] # None
IsWildcard == CurSplit # None /\ CurRef # None /\ CurRef[1][2] = None
CurNamespace == CurRef[1][1]
CurItem == CurRef[1][2][1]
QualifiedKey == CurNamespace \o Dot \o CurItem

\* The keys of the index whose item name is the given one, up to ASCII case.
KeysNamed(m, item) ==
    {k \in DOMAIN m : eq_ignore_ascii_case(ItemSuffix(k), item)}

\* The keys of the index under the namespace: namespace, ".", and the rest.
KeysUnder(m, namespace) ==
    {k \in DOMAIN m :
        /\ Len(k) > Len(namespace)
        /\ SubSeq(k, 1, Len(namespace)) = namespace
        /\ k[Len(namespace) + 1] = "."}

\* The import is skipped: the loop goes on to the next one and the
\* accumulator is as it was.
Skipped ==
    /\ pc' = "loop"
    /\ i' = i + 1
    /\ required_features' = required_features

\* C1: a raw line that cannot be parsed (no ":" at all, or fewer than 3
\* tokens between "::") is skipped: no error, the accumulator unchanged, the
\* loop goes on to the next line.
C1_UnparseableSkipped == [][(AtImport /\ CannotParse) => Skipped]_vars

\* C3: for a fixed catalog the outcome depends only on the set of distinct
\* raw imports: a run over the same lines in another order or number ends as
\* the first run did, with the same feature set.
C3_OrderAndRepetition ==
    (run = 2 /\ pc \in {"done", "err"}) =>
        /\ pc = prev.pc
        /\ pc = "done" => required_features = prev.required_features

\* C3 witness: two different lines were resolved in both orders.
C3_Witness ==
    /\ run = 2
    /\ pc = "done"
    /\ Len(imports) = 2
    /\ imports[1] # imports[2]
    /\ imports # prev.imports
    /\ Cardinality(required_features) >= 2

\* C4: a specific-item import whose qualified key is not in the index, and
\* whose item name is, up to ASCII case, the item name of keys of the index,
\* contributes exactly the feature set of the smallest such key (of that key
\* when there is one).
C4_FallbackCorrection ==
    [][(AtImport /\ IsSpecific
        /\ QualifiedKey \notin DOMAIN item_to_features
        /\ KeysNamed(item_to_features, CurItem) # {})
       => /\ pc' = "loop"
          /\ i' = i + 1
          /\ required_features' =
                 required_features
                 \cup item_to_features[SmallestKey(KeysNamed(item_to_features, CurItem))]
          /\ diag'.kind = "corrected"]_vars

\* C4 witness: g, imported under Windows.Z, exists only as Windows.B.G with
\* feature U, and the first import yielded {U}.
C4_Witness ==
    /\ pc = "loop"
    /\ i = 2
    /\ features = CatalogFull
    /\ imports[1] = LineWrongNs
    /\ diag.kind = "corrected"
    /\ diag.key = NsB \o Dot \o <<"G">>
    /\ required_features = {"U"}

\* C5: a specific-item import whose qualified key is in the index with a
\* non-empty feature set contributes exactly that set, and the by-name
\* fallback is not consulted.
C5_ExactMatch ==
    [][(AtImport /\ IsSpecific
        /\ QualifiedKey \in DOMAIN item_to_features
        /\ item_to_features[QualifiedKey] # {})
       => /\ pc' = "loop"
          /\ i' = i + 1
          /\ required_features' = required_features \cup item_to_features[QualifiedKey]
          /\ diag'.kind = "exact"
          /\ diag'.key = QualifiedKey]_vars

\* C5 witness: Windows.B.f -> Y was found although Windows.A.f -> X, which
\* the fallback would have chosen, has the same item name.
C5_Witness ==
    /\ pc = "loop"
    /\ i = 2
    /\ features = CatalogFull
    /\ imports[1] = LineExactB
    /\ diag.kind = "exact"
    /\ required_features = {"Y"}
    /\ attempt_fix_import(item_to_features, NsB \o Dot \o <<"f">>) = Some({"X"})

\* C6: a wildcard import over namespace N contributes exactly the union of
\* the feature sets of the keys that begin with N and ".", and when the union
\* is empty it contributes nothing and no fallback is attempted.
C6_WildcardUnion ==
    [][(AtImport /\ IsWildcard)
       => LET U == UNION {item_to_features[k] :
                             k \in KeysUnder(item_to_features, CurNamespace)}
          IN  /\ pc' = "loop"
              /\ i' = i + 1
              /\ required_features' = required_features \cup U
              /\ diag'.kind = IF U = {} THEN "no_features_namespace" ELSE "wildcard"]_vars

\* C6 witness: the wildcard over Windows.A yielded X and Y and not the V of
\* Windows.AB.h.
C6_Witness ==
    /\ pc = "loop"
    /\ i = 2
    /\ features = CatalogFull
    /\ imports[1] = LineWildA
    /\ diag.kind = "wildcard"
    /\ required_features = {"X", "Y"}
    /\ (NsAB \o Dot \o <<"h">>) \in DOMAIN item_to_features

\* C7: a specific-item import whose item name is the item name of no key of
\* the index, exactly or up to ASCII case, leaves the accumulator unchanged
\* and the loop goes on to the next import.
C7_GracefulMiss ==
    [][(AtImport /\ IsSpecific /\ KeysNamed(item_to_features, CurItem) = {})
       => Skipped]_vars

====
